---- MODULE Spec2Model ----
(***************************************************************************)
(* Sector-relative one-day performance pipeline of the stock analytics     *)
(* tool: the four BackEnd_02 variants, the get_sector use of               *)
(* BackEnd_03_Macro_Data and the FrontEnd run.                             *)
(*                                                                         *)
(* One process imports one backend variant; `module` records which one.    *)
(* Floats are modelled in fixed point: a percent return is an integer      *)
(* number of ticks, Scale ticks to one percent, so that the quartiles of   *)
(* up to five returns (multiples of a quarter) are exact.                  *)
(***************************************************************************)
EXTENDS Integers, Sequences, FiniteSets, TLC

VARIABLES
    module,        \* the backend variant this process runs
    pc,            \* control position of the process
    ticker,        \* sector_1d_comparison: ticker (after normalisation)
    sector,        \* sector_1d_comparison: sector
    peers,         \* sector_1d_comparison: peers / same_sector
    i,             \* sector_1d_comparison: index of `sym` in [ticker] + peers
    rows,          \* sector_1d_comparison: rows
    peer_pct,      \* sector_1d_comparison: peer_pct / pct_list
    cmp,           \* tgt_pct, q25, q75 of the last classification
    result,        \* what the last finished call gave its caller
    sectorCache,   \* lru_cache of get_sector / _fetch_sector
    avCache,       \* lru_cache of _av_request
    closesCache,   \* lru_cache of _get_latest_two_closes
    returnsCache,  \* lru_cache of _get_daily_returns
    keyCache,      \* lru_cache of _get_prices_cache_key
    now,           \* the UTC clock, in minutes
    av,            \* the running _av_request call: params, requests, sleeps
    metaLog,       \* per ticker: number of calls to the metadata provider
    resolverLog,   \* the resolver's first return per ticker, and its last return
    priceLog,      \* per symbol: number of successful daily-series fetches
    downloadLog,   \* per symbols string: downloads made, and when a series was served
    macro_data_sign, \* BackEnd_03_Macro_Data: the module-level macro_data_sign
    page,          \* FrontEnd: what the last run put on the page
    calls          \* number of top-level calls made so far

vars == <<module, pc, ticker, sector, peers, i, rows, peer_pct, cmp, result,
          sectorCache, avCache, closesCache, returnsCache, keyCache, now, av,
          metaLog, resolverLog, priceLog, downloadLog, macro_data_sign, page, calls>>

localVars == <<ticker, sector, peers, i, rows, peer_pct, cmp>>
cacheVars == <<sectorCache, avCache, closesCache, returnsCache>>
logVars   == <<metaLog, resolverLog, priceLog>>

-----------------------------------------------------------------------------
(* Bounds of the model *)

\* top-level calls made by one process
MaxCalls == 2
\* throttle notices the provider sends within one _av_request call
MaxThrottle == 2
\* minutes the clock runs
MaxMinutes == 6

-----------------------------------------------------------------------------
(* Static data *)

None == "None"

Modules == {"for_deploy", "Sector_Performance", "try", "try2"}

\* lru_cache(maxsize=512) of get_sector
SectorCacheSize == 512

SECTOR_LEADERS ==
    [ s \in { "Communication Services", "Consumer Discretionary",
              "Consumer Staples", "Energy", "Financials", "Health Care",
              "Industrials", "Information Technology", "Materials",
              "Real Estate", "Utilities" } |->
      CASE s = "Communication Services" -> <<"META", "GOOGL", "TMUS", "VZ">>
        [] s = "Consumer Discretionary" -> <<"AMZN", "TSLA", "F", "HD">>
        [] s = "Consumer Staples"       -> <<"COST", "PG", "WMT", "KO">>
        [] s = "Energy"                 -> <<"XOM", "CVX", "COP", "SLB">>
        [] s = "Financials"             -> <<"JPM", "BAC", "GS", "MS">>
        [] s = "Health Care"            -> <<"JNJ", "PFE", "UNH", "ABBV">>
        [] s = "Industrials"            -> <<"GE", "HON", "UPS", "CAT">>
        [] s = "Information Technology" -> <<"AAPL", "MSFT", "NVDA", "PLTR">>
        [] s = "Materials"              -> <<"NEM", "LIN", "APD", "FCX">>
        [] s = "Real Estate"            -> <<"PLD", "SPG", "CCI", "O">>
        [] s = "Utilities"              -> <<"NEE", "DUK", "SO", "EXC">> ]

SECTOR_LEADERS_try2 ==
    [ s \in DOMAIN SECTOR_LEADERS |->
      CASE s = "Communication Services" -> <<"META", "GOOGL", "GOOG", "VZ", "TMUS">>
        [] s = "Consumer Discretionary" -> <<"AMZN", "TSLA", "HD", "MCD", "NKE">>
        [] s = "Consumer Staples"       -> <<"PG", "KO", "PEP", "WMT", "COST">>
        [] s = "Energy"                 -> <<"XOM", "CVX", "COP", "EOG", "SLB">>
        [] s = "Financials"             -> <<"JPM", "BAC", "MS", "GS", "C">>
        [] s = "Health Care"            -> <<"UNH", "JNJ", "LLY", "PFE", "MRK">>
        [] s = "Industrials"            -> <<"HON", "GE", "UPS", "UNP", "CAT">>
        [] s = "Information Technology" -> <<"AAPL", "MSFT", "NVDA", "AVGO", "PLTR">>
        [] s = "Materials"              -> <<"LIN", "NEM", "FCX", "APD", "DD">>
        [] s = "Real Estate"            -> <<"AMT", "PLD", "CCI", "EQIX", "DLR">>
        [] s = "Utilities"              -> <<"NEE", "DUK", "SO", "D", "EXC">> ]

CanonicalSectors == DOMAIN SECTOR_LEADERS

YF_TO_GICS ==
    [ k \in { "basic-materials", "communication-services", "consumer-cyclical",
              "consumer-defensive", "energy", "financial-services",
              "healthcare", "industrials", "real-estate", "technology",
              "utilities" } |->
      CASE k = "basic-materials"        -> "Materials"
        [] k = "communication-services" -> "Communication Services"
        [] k = "consumer-cyclical"      -> "Consumer Discretionary"
        [] k = "consumer-defensive"     -> "Consumer Staples"
        [] k = "energy"                 -> "Energy"
        [] k = "financial-services"     -> "Financials"
        [] k = "healthcare"             -> "Health Care"
        [] k = "industrials"            -> "Industrials"
        [] k = "real-estate"            -> "Real Estate"
        [] k = "technology"             -> "Information Technology"
        [] k = "utilities"              -> "Utilities" ]

-----------------------------------------------------------------------------
(* Strings *)

\* str.upper() on the ticker strings of the model
Upper(t) ==
    CASE t = "ge"  -> "GE"
      [] t = "xyz" -> "XYZ"
      [] OTHER     -> t

\* str.lower() on the raw sector codes of the model
Lower(k) ==
    CASE k = "Industrials"        -> "industrials"
      [] k = "Technology"         -> "technology"
      [] k = "Financial Services" -> "financial services"
      [] k = "Conglomerates"      -> "conglomerates"
      [] OTHER                    -> k

-----------------------------------------------------------------------------
(* Sequences *)

RECURSIVE Filter(_, _)
\* [p for p in s if p != x]
Filter(s, x) ==
    IF s = <<>> THEN <<>>
    ELSE IF Head(s) = x THEN Filter(Tail(s), x)
         ELSE <<Head(s)>> \o Filter(Tail(s), x)

\* s[:n]
Take(s, n) == SubSeq(s, 1, IF n < Len(s) THEN n ELSE Len(s))

Range(s) == { s[k] : k \in DOMAIN s }

NoDuplicates(s) == \A a, b \in DOMAIN s : s[a] = s[b] => a = b

IsPrefix(p, s) == Len(p) <= Len(s) /\ p = SubSeq(s, 1, Len(p))

RECURSIVE Insert(_, _)
Insert(x, s) ==
    IF s = <<>> THEN <<x>>
    ELSE IF x <= Head(s) THEN <<x>> \o s
         ELSE <<Head(s)>> \o Insert(x, Tail(s))

RECURSIVE SortAsc(_)
SortAsc(s) == IF s = <<>> THEN <<>> ELSE Insert(Head(s), SortAsc(Tail(s)))

RECURSIVE Sum(_)
Sum(s) == IF s = <<>> THEN 0 ELSE Head(s) + Sum(Tail(s))

-----------------------------------------------------------------------------
(* Fixed-point floats *)

\* ticks per percent
Scale == 16 * 100

Abs(x) == IF x < 0 THEN -x ELSE x

\* pct = (last_c - prev_c) / prev_c * 100, in ticks; the prices of the model
\* make the division exact.  prev_c = 0 raises ZeroDivisionError in the
\* callers, which test for it before they use PercentReturn.
PercentReturn(prev_c, last_c) == ((last_c - prev_c) * 100 * Scale) \div prev_c

RECURSIVE Pow10(_)
Pow10(n) == IF n = 0 THEN 1 ELSE 10 * Pow10(n - 1)

\* f"{pct:+.<dec>f}": the sign and the magnitude rounded to dec decimals
\* (correct rounding, ties to even; "-0.00" keeps its sign)
FormatPct(pct, dec) ==
    LET a    == Abs(pct) * Pow10(dec)
        q    == a \div Scale
        r    == a % Scale
        up   == 2 * r > Scale \/ (2 * r = Scale /\ q % 2 = 1)
    IN  [neg |-> pct < 0, units |-> IF up THEN q + 1 ELSE q, dec |-> dec]

\* cell.replace("+", "") read back with float(): the decimal number in ticks
\* (exact for two decimals)
ParsePct(cell) == (IF cell.neg THEN -1 ELSE 1) * ((cell.units * Scale) \div Pow10(cell.dec))

\* numpy round(2) of a percent value
Round2(pct) == ParsePct(FormatPct(pct, 2))

\* mutant: the lower neighbour instead of the interpolated value
MutQuantile_lower(series, num) ==
    LET s    == SortAsc(series)
        n    == Len(s)
        pos4 == num * (n - 1)
        lo   == pos4 \div 4
    IN  s[lo + 1]

\* pandas Series.quantile(num/4) with linear interpolation: the value at
\* position (num/4)*(n-1) of the sorted series
Quantile(series, num) ==
    LET s    == SortAsc(series)
        n    == Len(s)
        pos4 == num * (n - 1)
        lo   == pos4 \div 4
        fr   == pos4 % 4
    IN  IF fr = 0 THEN s[lo + 1]
        ELSE s[lo + 1] + (fr * (s[lo + 2] - s[lo + 1])) \div 4

-----------------------------------------------------------------------------
(* Comparator / scorer *)

\* mutant: the bottom-quartile test comes first
MutClassify_order(tgt_pct, q25, q75) ==
    IF tgt_pct <= q25 THEN [status |-> "Underperforming", signal |-> -3]
    ELSE IF tgt_pct >= q75 THEN [status |-> "Leading", signal |-> 3]
    ELSE [status |-> "In-Line", signal |-> 0]

\* mutant: a strict top-quartile test
MutClassify_strict(tgt_pct, q25, q75) ==
    IF tgt_pct > q75 THEN [status |-> "Leading", signal |-> 3]
    ELSE IF tgt_pct <= q25 THEN [status |-> "Underperforming", signal |-> -3]
    ELSE [status |-> "In-Line", signal |-> 0]

\* BackEnd_02_for_deploy: the if / elif / else on tgt_pct
Classify_deploy(tgt_pct, q25, q75) ==
    IF tgt_pct >= q75 THEN [status |-> "Leading", signal |-> 3]
    ELSE IF tgt_pct <= q25 THEN [status |-> "Underperforming", signal |-> -3]
    ELSE [status |-> "In-Line", signal |-> 0]

\* BackEnd_02_Sector_Performance: the if / elif / else on target_pct
Classify_SP(target_pct, q25, q75) ==
    IF target_pct >= q75 THEN [status |-> "Leading", signal |-> 3]
    ELSE IF target_pct <= q25 THEN [status |-> "Underperforming", signal |-> -3]
    ELSE [status |-> "In-Line", signal |-> 0]

\* BackEnd_02_try: the same cascade (its In-Line label is spelled with U+2011)
Classify_try(tgt_pct, q25, q75) ==
    IF tgt_pct >= q75 THEN [status |-> "Leading", signal |-> 3]
    ELSE IF tgt_pct <= q25 THEN [status |-> "Underperforming", signal |-> -3]
    ELSE [status |-> "In-Line", signal |-> 0]

\* mutant: an empty peer set is scored against a zero return
MutBounds_zero(tgt_pct, peer_returns) ==
    LET series == IF peer_returns # <<>> THEN peer_returns ELSE <<0>>
    IN  [q75 |-> Quantile(series, 3), q25 |-> Quantile(series, 1)]

\* BackEnd_02_for_deploy: series = peer_pct or [tgt_pct]; q75, q25
Bounds_deploy(tgt_pct, peer_returns) ==
    LET series == IF peer_returns # <<>> THEN peer_returns ELSE <<tgt_pct>>
    IN  [q75 |-> Quantile(series, 3), q25 |-> Quantile(series, 1)]

\* BackEnd_02_try: q75 / q25 of pct_list, else tgt_pct
Bounds_try(tgt_pct, pct_list) ==
    [q75 |-> IF pct_list # <<>> THEN Quantile(pct_list, 3) ELSE tgt_pct,
     q25 |-> IF pct_list # <<>> THEN Quantile(pct_list, 1) ELSE tgt_pct]

-----------------------------------------------------------------------------
(* Peer selector *)

\* dict.get(sector, [])
LeadersOrEmpty(sector_) ==
    IF sector_ \in DOMAIN SECTOR_LEADERS THEN SECTOR_LEADERS[sector_] ELSE <<>>

\* mutant: the ticker is not filtered out
MutPeers_unfiltered(ticker_, sector_) == Take(LeadersOrEmpty(sector_), 4)

\* BackEnd_02_for_deploy: [p for p in SECTOR_LEADERS.get(sector, []) if p != ticker][:4]
Peers_deploy(ticker_, sector_) == Take(Filter(LeadersOrEmpty(sector_), ticker_), 4)

\* BackEnd_02_try: the same two lines
Peers_try(ticker_, sector_) == Take(Filter(LeadersOrEmpty(sector_), ticker_), 4)

\* mutant: an unknown sector falls back to a default leader list
MutCompanies_default(ticker_, GICS_sector_key) ==
    LET companies_in_same_sector ==
            IF GICS_sector_key \in DOMAIN SECTOR_LEADERS
            THEN SECTOR_LEADERS[GICS_sector_key] ELSE SECTOR_LEADERS["Industrials"]
    IN  [type |-> "list",
         value |-> IF ticker_ \in Range(companies_in_same_sector)
                   THEN Filter(companies_in_same_sector, ticker_)
                   ELSE Take(companies_in_same_sector, 3)]

\* BackEnd_02_Sector_Performance: the peer list, or the sentinel string
Companies_in_Same_Sector_for_comparison(ticker_, GICS_sector_key) ==
    IF GICS_sector_key \in DOMAIN SECTOR_LEADERS
    THEN LET companies_in_same_sector == SECTOR_LEADERS[GICS_sector_key]
         IN  [type |-> "list",
              value |-> IF ticker_ \in Range(companies_in_same_sector)
                        THEN Filter(companies_in_same_sector, ticker_)
                        ELSE Take(companies_in_same_sector, 3)]
    ELSE [type |-> "str", value |-> "SOMETHING WENT WRONG"]

-----------------------------------------------------------------------------
(* The metadata provider (Yahoo) and the sector resolvers *)

\* What yf.Ticker(t).get_info() / .info can do: raise, or give a dict whose
\* "sectorKey" and "sector" entries may be absent (None).
MetaResponses ==
    { [raises |-> TRUE,  sectorKey |-> None,            sector |-> None],
      [raises |-> FALSE, sectorKey |-> None,            sector |-> None],
      [raises |-> FALSE, sectorKey |-> "industrials",   sector |-> "Industrials"],
      [raises |-> FALSE, sectorKey |-> None,            sector |-> "Financial Services"],
      [raises |-> FALSE, sectorKey |-> "conglomerates", sector |-> "Conglomerates"] }

\* Python truthiness of an optional string
Truthy(x) == x # None /\ x # ""

\* a or b
Or(a, b) == IF Truthy(a) THEN a ELSE b

\* x or "Unknown"
OrUnknown(x) == IF Truthy(x) THEN x ELSE "Unknown"

\* mutant: a provider failure is raised instead of absorbed
MutGetSector_raising(resp) ==
    IF resp.raises THEN [raised |-> TRUE, value |-> None]
    ELSE LET raw_key == Or(resp.sectorKey, resp.sector)
         IN  IF raw_key = None THEN [raised |-> TRUE, value |-> None]
             ELSE IF Lower(raw_key) \in DOMAIN YF_TO_GICS
                  THEN [raised |-> FALSE, value |-> YF_TO_GICS[Lower(raw_key)]]
                  ELSE [raised |-> FALSE, value |-> raw_key]

\* BackEnd_02_for_deploy.get_sector, the body under the cache
GetSector_deploy(resp) ==
    IF resp.raises THEN [raised |-> FALSE, value |-> None]
    ELSE LET raw_key == Or(resp.sectorKey, resp.sector)
         IN  IF raw_key = None THEN [raised |-> FALSE, value |-> None]
             ELSE IF Lower(raw_key) \in DOMAIN YF_TO_GICS
                  THEN [raised |-> FALSE, value |-> YF_TO_GICS[Lower(raw_key)]]
                  ELSE [raised |-> FALSE, value |-> raw_key]

\* BackEnd_02_try2._fetch_sector, the body under the cache
FetchSector_try2(resp) ==
    IF resp.raises THEN [raised |-> FALSE, value |-> None]
    ELSE [raised |-> FALSE, value |-> resp.sector]

\* BackEnd_02_Sector_Performance.get_sector (no cache, no try)
GetSector_SP(resp) ==
    IF resp.raises THEN [raised |-> TRUE, value |-> None]
    ELSE [raised |-> FALSE,
          value |-> IF resp.sectorKey \in DOMAIN YF_TO_GICS
                    THEN YF_TO_GICS[resp.sectorKey] ELSE None]

-----------------------------------------------------------------------------
(* lru_cache: a map from the call's arguments to its return value.  A call   *)
(* that raises stores nothing.  With fewer distinct keys than maxsize no     *)
(* entry is ever evicted, so the recency order is not part of the state.     *)

\* mutant: the decorator is missing, every call is a miss
MutCached_never(cache, key) == FALSE

Cached(cache, key) == key \in DOMAIN cache

\* the resolver returned v for the argument t; how is what the metadata
\* provider did during the call: "hit" (not asked), "failed" (it raised, or
\* its answer has no sector field) or "answered"
Resolved(log, t, v, how) ==
    [first |-> IF t \in DOMAIN log.first THEN log.first ELSE (t :> v) @@ log.first,
     last  |-> [t |-> t, value |-> v, how |-> how]]

\* the resolver raised for the argument t
Unresolved(log, t, how) ==
    [first |-> log.first, last |-> [t |-> t, value |-> "raised", how |-> how]]

ProviderDid(resp) ==
    IF resp.raises \/ (resp.sectorKey = None /\ resp.sector = None)
    THEN "failed" ELSE "answered"

\* mutant: the decorator stores nothing
MutStore_drop(cache, key, value) == cache

Store(cache, key, value) == (key :> value) @@ cache

-----------------------------------------------------------------------------
(* The price provider (Alpha Vantage) *)

\* the keyword arguments of an _av_request call: its lru_cache key
AvKey(function, symbol, outputsize) ==
    [function |-> function, symbol |-> symbol, outputsize |-> outputsize]

\* params["apikey"] = API_KEY: the parameters requests.get is given
SentParams(key) ==
    [function |-> key.function, symbol |-> key.symbol,
     outputsize |-> key.outputsize, apikey |-> "API_KEY"]

DailyKey(sym) == AvKey("TIME_SERIES_DAILY_ADJUSTED", Upper(sym), "compact")
OverviewKey(tk) == AvKey("OVERVIEW", Upper(tk), None)

\* a JSON payload: the top-level keys it holds, the daily series (dates,
\* ordered as their ISO strings are, to adjusted closes) and the Sector field
Payload(keys, ts, sec) == [keys |-> keys, ts |-> ts, Sector |-> sec]

NoSeries == [d \in {} |-> 0]

\* the previous close of the model's series, in price units
BasePrice == 40 * 1000

\* a two-day series whose one-day return is d / 400 percent (4 * d ticks)
Daily(d) == Payload({"Meta Data", "Time Series (Daily)"},
                    (2 :> BasePrice) @@ (3 :> BasePrice + d), None)

\* the same with an older third day
Daily3(d) == Payload({"Meta Data", "Time Series (Daily)"},
                     (1 :> BasePrice - 7) @@ (2 :> BasePrice) @@ (3 :> BasePrice + d), None)

ThrottlePayloads ==
    { Payload({"Note"}, NoSeries, None),
      Payload({"Information"}, NoSeries, None),
      Payload({"Error Message", "Note"}, NoSeries, None) }

HardErrorPayload == Payload({"Error Message"}, NoSeries, None)

\* the daily series the provider may hold for a symbol
DailyPayloads(sym) ==
    CASE sym = "GE"  -> { Daily(403), Daily3(404),
                          Payload({"Meta Data", "Time Series (Daily)"}, (3 :> BasePrice), None) }
      [] sym = "XYZ" -> { Daily(403), Daily(-800),
                          Payload({"Meta Data", "Time Series (Daily)"}, (2 :> 0) @@ (3 :> BasePrice), None) }
      [] sym = "HON" -> { Daily(404), Daily(-200), Payload({}, NoSeries, None) }
      [] sym = "UPS" -> { Daily(404), Daily(4000) }
      [] sym = "CAT" -> { Daily(404), Daily(400),
                          Payload({"Meta Data", "Time Series (Daily)"}, NoSeries, None) }
      [] OTHER       -> { Daily(0) }

\* the company overviews the provider may hold for a symbol
OverviewPayloads(sym) ==
    { Payload({"Symbol", "Sector"}, NoSeries, "Industrials"),
      Payload({}, NoSeries, None) }

\* every answer the provider may give to one request
Responses(key) ==
    IF key.function = None THEN {} ELSE
    { [http |-> "error", data |-> Payload({}, NoSeries, None)] }
    \cup { [http |-> "ok", data |-> d] :
             d \in ThrottlePayloads \cup {HardErrorPayload} \cup
                   (IF key.function = "OVERVIEW" THEN OverviewPayloads(key.symbol)
                    ELSE DailyPayloads(key.symbol)) }

IsThrottle(data) == "Note" \in data.keys \/ "Information" \in data.keys

\* the provider's answer as the caller of the service sees it: an HTTP error,
\* a throttle notice, a hard error (no throttle marker), or a normal payload
AnswerKind(resp) ==
    IF resp.http = "error" THEN "http"
    ELSE IF {"Note", "Information"} \cap resp.data.keys # {} THEN "throttle"
    ELSE IF "Error Message" \in resp.data.keys THEN "error"
    ELSE "normal"

\* the running call a with the answer it has just been given noted: its kind,
\* and whether the payload held an "Error Message"
Answered(a, resp) ==
    [a EXCEPT !.got = Append(@, AnswerKind(resp)),
              !.hard = resp.http = "ok" /\ "Error Message" \in resp.data.keys]

\* a fresh _av_request call: the first request is on its way
NewAv(key, caller) ==
    [state |-> "running", key |-> key, caller |-> caller,
     sent |-> <<SentParams(key)>>, sleeps |-> 0, exc |-> None, got |-> <<>>, hard |-> FALSE]

NoAv == [state |-> "none", key |-> AvKey(None, None, None), caller |-> None,
         sent |-> <<>>, sleeps |-> 0, exc |-> None, got |-> <<>>, hard |-> FALSE]

\* mutant: a throttle notice is returned to the caller as data
MutAvStep_noRetry(a, resp) ==
    IF resp.http = "error"
    THEN [a EXCEPT !.state = "raised", !.exc = "HTTPError"]
    ELSE IF "Error Message" \in resp.data.keys
    THEN [a EXCEPT !.state = "raised", !.exc = "ValueError"]
    ELSE [a EXCEPT !.state = "returned"]

\* _av_request: what one pass of the while loop does with the response
AvStep(a, resp) ==
    IF resp.http = "error"
    THEN [a EXCEPT !.state = "raised", !.exc = "HTTPError"]
    ELSE IF IsThrottle(resp.data)
    THEN [a EXCEPT !.sleeps = @ + 1, !.sent = Append(@, SentParams(a.key))]
    ELSE IF "Error Message" \in resp.data.keys
    THEN [a EXCEPT !.state = "raised", !.exc = "ValueError"]
    ELSE [a EXCEPT !.state = "returned"]

RECURSIVE SortDesc(_)
\* sorted(keys, reverse=True)
SortDesc(S) ==
    IF S = {} THEN <<>>
    ELSE LET m == CHOOSE x \in S : \A y \in S : y <= x
         IN  <<m>> \o SortDesc(S \ {m})

Closes(prev_c, last_c, prev_d, last_d) ==
    [prev_c |-> prev_c, last_c |-> last_c, prev_d |-> prev_d, last_d |-> last_d]

NoCloses == Closes(0, 0, 0, 0)

\* mutant: a one-day series is used for both closes
MutLatestTwoCloses_oneDay(data) ==
    IF "Time Series (Daily)" \notin data.keys
    THEN [raised |-> TRUE, exc |-> "KeyError", value |-> NoCloses]
    ELSE LET dates == Take(SortDesc(DOMAIN data.ts), 2)
         IN  IF Len(dates) < 1
             THEN [raised |-> TRUE, exc |-> "IndexError", value |-> NoCloses]
             ELSE [raised |-> FALSE, exc |-> None,
                   value |-> Closes(data.ts[dates[Len(dates)]], data.ts[dates[1]],
                                    dates[Len(dates)], dates[1])]

\* BackEnd_02_for_deploy._get_latest_two_closes, after _av_request returned
LatestTwoCloses_deploy(data) ==
    IF "Time Series (Daily)" \notin data.keys
    THEN [raised |-> TRUE, exc |-> "KeyError", value |-> NoCloses]
    ELSE LET dates == Take(SortDesc(DOMAIN data.ts), 2)
         IN  IF Len(dates) < 2
             THEN [raised |-> TRUE, exc |-> "IndexError", value |-> NoCloses]
             ELSE [raised |-> FALSE, exc |-> None,
                   value |-> Closes(data.ts[dates[2]], data.ts[dates[1]], dates[2], dates[1])]

\* BackEnd_02_try._get_latest_two_closes, after _av_request returned
LatestTwoCloses_try(data) ==
    IF "Time Series (Daily)" \notin data.keys
    THEN [raised |-> TRUE, exc |-> "KeyError", value |-> NoCloses]
    ELSE LET dates == Take(SortDesc(DOMAIN data.ts), 2)
         IN  IF Len(dates) < 2
             THEN [raised |-> TRUE, exc |-> "ValueError", value |-> NoCloses]
             ELSE [raised |-> FALSE, exc |-> None,
                   value |-> Closes(data.ts[dates[2]], data.ts[dates[1]], dates[2], dates[1])]

\* BackEnd_02_try.get_sector, after _av_request returned
GetSector_try(data) ==
    IF "Sector" \in data.keys /\ Truthy(data.Sector) THEN data.Sector ELSE None

-----------------------------------------------------------------------------
(* The result table *)

RECURSIVE Digits(_)
\* the decimal digits of n as character codes
Digits(n) == IF n < 10 THEN <<48 + n>> ELSE Digits(n \div 10) \o <<48 + (n % 10)>>

RECURSIVE FracDigits(_, _)
\* the last dec decimal digits of n, zero padded
FracDigits(n, dec) ==
    IF dec = 0 THEN <<>> ELSE FracDigits(n \div 10, dec - 1) \o <<48 + (n % 10)>>

\* the characters of the formatted cell: '+' is 43, '-' is 45, '.' is 46
Chars(cell) ==
    <<IF cell.neg THEN 45 ELSE 43>> \o Digits(cell.units \div Pow10(cell.dec))
        \o <<46>> \o FracDigits(cell.units, cell.dec)

RECURSIVE StrLess(_, _)
\* Python's str < str on character sequences
StrLess(a, b) ==
    IF b = <<>> THEN FALSE
    ELSE IF a = <<>> THEN TRUE
    ELSE IF Head(a) # Head(b) THEN Head(a) < Head(b)
    ELSE StrLess(Tail(a), Tail(b))

\* "Same Sector" < "Target" as strings
GroupRank(g) == IF g = "Same Sector" THEN 0 ELSE 1

\* sort_values(["Group", "1-Day %"], ascending=[True, False]): a before b
RowBefore(a, b) ==
    \/ GroupRank(a.Group) < GroupRank(b.Group)
    \/ a.Group = b.Group /\ StrLess(Chars(b.cell), Chars(a.cell))

RECURSIVE InsertRow(_, _)
InsertRow(x, s) ==
    IF s = <<>> THEN <<x>>
    ELSE IF RowBefore(x, Head(s)) THEN <<x>> \o s
         ELSE <<Head(s)>> \o InsertRow(x, Tail(s))

RECURSIVE SortRows(_)
\* a stable sort of the rows
SortRows(r) ==
    IF r = <<>> THEN <<>>
    ELSE InsertRow(r[Len(r)], SortRows(SubSeq(r, 1, Len(r) - 1)))

Row(group, sym, c, pct) ==
    [Group |-> group, Ticker |-> sym, prev_c |-> c.prev_c, last_c |-> c.last_c,
     cell |-> FormatPct(pct, 2)]

\* df.loc[df["Ticker"] == ticker, "1-Day %"]: the cells of the ticker's rows
CellsOf(df, tk) ==
    LET idx == { k \in DOMAIN df : df[k].Ticker = tk }
    IN  { df[k].cell : k \in idx }

-----------------------------------------------------------------------------
(* sector_1d_comparison of the Alpha Vantage variants (for_deploy, try) *)

NoCmp == [tgt_pct |-> 0, q25 |-> 0, q75 |-> 0, empty |-> TRUE]

NoResult == [kind |-> "none", fn |-> None, exc |-> None, value |-> None]

Raised(fn, exc) == [kind |-> "raised", fn |-> fn, exc |-> exc, value |-> None]

Returned(fn, value) == [kind |-> "returned", fn |-> fn, exc |-> None, value |-> value]

\* the frame of a running sector_1d_comparison and what it hands back
Frame(pc_, i_, rows_, peer_pct_, cc, cmp_, result_) ==
    [pc |-> pc_, i |-> i_, rows |-> rows_, peer_pct |-> peer_pct_,
     closesCache |-> cc, cmp |-> cmp_, result |-> result_]

Peers(mod, tk, sec) ==
    IF mod = "try" THEN Peers_try(tk, sec) ELSE Peers_deploy(tk, sec)

LatestTwoCloses(mod, data) ==
    IF mod = "try" THEN LatestTwoCloses_try(data) ELSE LatestTwoCloses_deploy(data)

\* the exception ends the call: the frame is gone
Raise(f, exc) ==
    Frame("idle", 0, <<>>, <<>>, f.closesCache, f.cmp,
          Raised("sector_1d_comparison", exc))

\* lines 97-126 of BackEnd_02_for_deploy, 115-148 of BackEnd_02_try: the
\* sorted table, the target's return read back from its cell, the bounds,
\* the classification
Finish(mod, tk, f) ==
    LET df      == SortRows(f.rows)
        tgt_pct == ParsePct(CHOOSE c \in CellsOf(df, tk) : TRUE)
        b       == IF mod = "try" THEN Bounds_try(tgt_pct, f.peer_pct)
                   ELSE Bounds_deploy(tgt_pct, f.peer_pct)
        c       == IF mod = "try" THEN Classify_try(tgt_pct, b.q25, b.q75)
                   ELSE Classify_deploy(tgt_pct, b.q25, b.q75)
    IN  Frame("idle", 0, <<>>, <<>>, f.closesCache,
              [tgt_pct |-> tgt_pct, q25 |-> b.q25, q75 |-> b.q75,
               empty |-> f.peer_pct = <<>>],
              Returned("sector_1d_comparison",
                       [df |-> df, status |-> c.status, signal |-> c.signal]))

RECURSIVE RunLoop(_, _, _, _, _)
RECURSIVE AddRow(_, _, _, _, _, _, _)

\* the for loop from symbol f.i on, as far as it gets without a request to
\* the provider: to the end of the call, or to the next _av_request miss
RunLoop(mod, tk, tks, avc, f) ==
    IF f.i > Len(tks) THEN Finish(mod, tk, f)
    ELSE LET sym == tks[f.i]
         IN  IF Cached(f.closesCache, sym)
             THEN AddRow(mod, tk, tks, avc, f, sym, f.closesCache[sym])
             ELSE IF Cached(avc, DailyKey(sym))
             THEN LET r == LatestTwoCloses(mod, avc[DailyKey(sym)])
                  IN  IF r.raised THEN Raise(f, r.exc)
                      ELSE AddRow(mod, tk, tks, avc,
                                  [f EXCEPT !.closesCache = Store(@, sym, r.value)],
                                  sym, r.value)
             ELSE [f EXCEPT !.pc = "av"]

\* lines 91-95: `sym` with its closes c joins the table
AddRow(mod, tk, tks, avc, f, sym, c) ==
    IF c.prev_c = 0 THEN Raise(f, "ZeroDivisionError")
    ELSE LET pct == PercentReturn(c.prev_c, c.last_c)
         IN  RunLoop(mod, tk, tks, avc,
                     [f EXCEPT !.i = @ + 1,
                               !.rows = Append(@, Row(IF sym = tk THEN "Target" ELSE "Same Sector",
                                                      sym, c, pct)),
                               !.peer_pct = IF sym # tk THEN Append(@, pct) ELSE @])

-----------------------------------------------------------------------------
(* The process *)

\* the ticker strings callers pass to sector_1d_comparison and to get_sector
TargetInputs == {"ge", "XYZ"}
ResolverInputs == {"ge", "GE"}
TickerStrings == {"ge", "GE", "XYZ"}
Symbols == {"GE", "HON", "UPS", "CAT", "XYZ"}

\* a process that has imported its backend and called nothing yet
InitProcess ==
    /\ i = 0
    /\ rows = <<>>
    /\ peer_pct = <<>>
    /\ result = NoResult
    /\ sectorCache = <<>>
    /\ avCache = <<>>
    /\ closesCache = <<>>
    /\ returnsCache = <<>>
    /\ keyCache = <<>>
    /\ now = 0
    /\ downloadLog = [n |-> <<>>, at |-> <<>>,
                      last |-> [symbols |-> None, served |-> None, fetched |-> None]]
    /\ av = NoAv
    /\ metaLog = [t \in TickerStrings |-> 0]
    /\ resolverLog = [first |-> <<>>, last |-> [t |-> None, value |-> None, how |-> None]]
    /\ priceLog = [sym \in Symbols |-> 0]
    /\ macro_data_sign = 0
    /\ page = [warning |-> FALSE, headers |-> <<>>, done |-> <<>>, error |-> None,
               raised_by |-> None]
    /\ calls = 0

Init ==
    /\ module \in Modules
    /\ pc = "idle"
    /\ ticker = None
    /\ sector = None
    /\ peers = <<>>
    /\ cmp = NoCmp
    /\ InitProcess

\* the frame f becomes the state; avNow is the _av_request call last run
Continue(f, tks, avNow) ==
    /\ pc' = f.pc
    /\ i' = f.i
    /\ rows' = f.rows
    /\ peer_pct' = f.peer_pct
    /\ closesCache' = f.closesCache
    /\ cmp' = f.cmp
    /\ result' = f.result
    /\ av' = IF f.pc = "av" THEN NewAv(DailyKey(tks[f.i]), "closes") ELSE avNow

\* lines 84-95 of BackEnd_02_for_deploy, 92-113 of BackEnd_02_try, from the
\* value get_sector gave
StartLoop(tk, value, avc, avNow) ==
    LET sec == OrUnknown(value)
        prs == Peers(module, tk, sec)
        tks == <<tk>> \o prs
    IN  /\ ticker' = tk
        /\ sector' = sec
        /\ peers' = prs
        /\ Continue(RunLoop(module, tk, tks, avc,
                            Frame("loop", 1, <<>>, <<>>, closesCache, NoCmp, NoResult)),
                    tks, avNow)

\* the call ends with an exception before the loop is entered
RaiseEarly(tk, exc, avNow) ==
    /\ ticker' = tk
    /\ sector' = None
    /\ peers' = <<>>
    /\ Continue(Raise(Frame("loop", 0, <<>>, <<>>, closesCache, NoCmp, NoResult), exc),
                <<tk>>, avNow)

\* sector_1d_comparison(t), the sector already in get_sector's cache
CompareSectorCached(t) ==
    LET tk == Upper(t)
    IN  /\ pc = "idle" /\ calls < MaxCalls
        /\ module \in {"for_deploy", "try"}
        /\ Cached(sectorCache, tk)
        /\ calls' = calls + 1
        /\ resolverLog' = Resolved(resolverLog, tk, sectorCache[tk], "hit")
        /\ StartLoop(tk, sectorCache[tk], avCache, NoAv)
        /\ UNCHANGED <<module, macro_data_sign, keyCache, now, downloadLog, page, sectorCache, avCache, returnsCache, metaLog, priceLog>>

\* BackEnd_02_for_deploy.sector_1d_comparison(t), get_sector asking Yahoo
CompareDeploy(t) ==
    LET tk == Upper(t)
    IN  /\ pc = "idle" /\ calls < MaxCalls
        /\ module = "for_deploy"
        /\ ~Cached(sectorCache, tk)
        /\ Cardinality(DOMAIN sectorCache) < SectorCacheSize
        /\ calls' = calls + 1
        /\ metaLog' = [metaLog EXCEPT ![tk] = @ + 1]
        /\ \E resp \in MetaResponses :
             LET g == GetSector_deploy(resp)
             IN  IF g.raised
                 THEN /\ RaiseEarly(tk, "Exception", NoAv)
                      /\ resolverLog' = Unresolved(resolverLog, tk, ProviderDid(resp))
                      /\ UNCHANGED sectorCache
                 ELSE /\ sectorCache' = Store(sectorCache, tk, g.value)
                      /\ resolverLog' = Resolved(resolverLog, tk, g.value, ProviderDid(resp))
                      /\ StartLoop(tk, g.value, avCache, NoAv)
        /\ UNCHANGED <<module, macro_data_sign, keyCache, now, downloadLog, page, avCache, returnsCache, priceLog>>

\* BackEnd_02_try.sector_1d_comparison(t), get_sector asking for the overview
CompareTry(t) ==
    LET tk == Upper(t)
    IN  /\ pc = "idle" /\ calls < MaxCalls
        /\ module = "try"
        /\ ~Cached(sectorCache, tk)
        /\ ~Cached(avCache, OverviewKey(tk))
        /\ calls' = calls + 1
        /\ pc' = "av"
        /\ av' = NewAv(OverviewKey(tk), "get_sector")
        /\ ticker' = tk
        /\ sector' = None
        /\ peers' = <<>>
        /\ i' = 0 /\ rows' = <<>> /\ peer_pct' = <<>>
        /\ cmp' = NoCmp
        /\ result' = NoResult
        /\ UNCHANGED <<module, macro_data_sign, keyCache, now, downloadLog, page, cacheVars, logVars>>

\* the provider throttles the request in flight: sleep, ask again
AvThrottled ==
  \E resp \in Responses(av.key) :
    /\ pc = "av"
    /\ IsThrottle(resp.data) /\ resp.http = "ok"
    /\ av.sleeps < MaxThrottle
    /\ av' = Answered(AvStep(av, resp), resp)
    /\ IF av'.state = "running"
       THEN UNCHANGED <<pc, result>>
       ELSE /\ pc' = "idle"
            /\ result' = IF av'.state = "raised"
                         THEN Raised("sector_1d_comparison", av'.exc)
                         ELSE Returned("_av_request", resp.data)
    /\ UNCHANGED <<module, macro_data_sign, keyCache, now, downloadLog, page, localVars, cacheVars, logVars, calls>>

\* the request in flight fails: HTTP error, or a hard-error payload
AvFailed ==
  \E resp \in Responses(av.key) :
    /\ pc = "av"
    /\ ~(IsThrottle(resp.data) /\ resp.http = "ok")
    /\ AvStep(av, resp).state = "raised"
    /\ av' = Answered(AvStep(av, resp), resp)
    /\ ticker' = ticker /\ sector' = sector /\ peers' = peers
    /\ Continue(Raise(Frame("loop", i, rows, peer_pct, closesCache, cmp, result), av'.exc),
                <<>>, av')
    /\ UNCHANGED <<module, macro_data_sign, keyCache, now, downloadLog, page, sectorCache, avCache, returnsCache, logVars, calls>>

\* the request in flight is answered with data: _av_request returns it to
\* get_sector (try) or to _get_latest_two_closes, and the call goes on
AvReturned ==
  \E resp \in Responses(av.key) :
    /\ pc = "av"
    /\ ~(IsThrottle(resp.data) /\ resp.http = "ok")
    /\ AvStep(av, resp).state # "raised"
    /\ LET a2  == Answered(AvStep(av, resp), resp)
           avc == Store(avCache, av.key, resp.data)
       IN  /\ avCache' = avc
           /\ IF av.caller = "get_sector"
              THEN /\ sectorCache' = Store(sectorCache, ticker, GetSector_try(resp.data))
                   /\ resolverLog' = Resolved(resolverLog, ticker, GetSector_try(resp.data),
                                                 IF GetSector_try(resp.data) = None THEN "failed" ELSE "answered")
                   /\ metaLog' = [metaLog EXCEPT ![ticker] = @ + 1]
                   /\ priceLog' = priceLog
                   /\ StartLoop(ticker, GetSector_try(resp.data), avc, a2)
              ELSE LET tks == <<ticker>> \o peers
                       sym == tks[i]
                       r   == LatestTwoCloses(module, resp.data)
                       f   == Frame("loop", i, rows, peer_pct, closesCache, cmp, result)
                   IN  /\ priceLog' = [priceLog EXCEPT ![sym] = @ + 1]
                       /\ UNCHANGED <<sectorCache, resolverLog, metaLog>>
                       /\ ticker' = ticker /\ sector' = sector /\ peers' = peers
                       /\ Continue(IF r.raised THEN Raise(f, r.exc)
                                   ELSE AddRow(module, ticker, tks, avc,
                                               [f EXCEPT !.closesCache = Store(@, sym, r.value)],
                                               sym, r.value),
                                   tks, a2)
    /\ UNCHANGED <<module, macro_data_sign, keyCache, now, downloadLog, page, returnsCache, calls>>

\* get_sector(t) called on its own (BackEnd_02_for_deploy)
GetSectorDeploy(t) ==
    /\ pc = "idle" /\ calls < MaxCalls
    /\ module = "for_deploy"
    /\ calls' = calls + 1
    /\ IF Cached(sectorCache, t)
       THEN /\ result' = Returned("get_sector", sectorCache[t])
            /\ resolverLog' = Resolved(resolverLog, t, sectorCache[t], "hit")
            /\ UNCHANGED <<sectorCache, metaLog>>
       ELSE /\ Cardinality(DOMAIN sectorCache) < SectorCacheSize
            /\ metaLog' = [metaLog EXCEPT ![t] = @ + 1]
            /\ \E resp \in MetaResponses :
                 LET g == GetSector_deploy(resp)
                 IN  IF g.raised
                     THEN /\ result' = Raised("get_sector", "Exception")
                          /\ resolverLog' = Unresolved(resolverLog, t, ProviderDid(resp))
                          /\ UNCHANGED sectorCache
                     ELSE /\ result' = Returned("get_sector", g.value)
                          /\ sectorCache' = Store(sectorCache, t, g.value)
                          /\ resolverLog' = Resolved(resolverLog, t, g.value, ProviderDid(resp))
    /\ av' = NoAv
    /\ UNCHANGED <<module, macro_data_sign, keyCache, now, downloadLog, page, pc, localVars, avCache, closesCache, returnsCache, priceLog>>

-----------------------------------------------------------------------------
(* BackEnd_02_Sector_Performance and BackEnd_03_Macro_Data (the deployed path) *)

Quote(d) == [ok |-> TRUE, Open |-> BasePrice, Close |-> BasePrice + d]
NoQuote == [ok |-> FALSE, Open |-> 0, Close |-> 0]

\* what yf.download may hold for the day: per symbol the first open and the
\* last close, or no rows
IntradayDays ==
    { [sym \in Symbols |-> Quote(401)],
      [sym \in Symbols |->
         CASE sym = "GE" -> Quote(401) [] sym = "HON" -> Quote(-200)
           [] sym = "UPS" -> Quote(4000) [] sym = "CAT" -> Quote(400)
           [] OTHER -> Quote(-800)],
      [sym \in Symbols |->
         CASE sym = "GE" -> Quote(400) [] sym = "HON" -> Quote(401)
           [] sym = "UPS" -> Quote(-200) [] sym = "CAT" -> Quote(4000)
           [] OTHER -> Quote(401)],
      [sym \in Symbols |-> IF sym = "HON" THEN NoQuote ELSE Quote(401)] }

RECURSIVE Rows_SP(_, _, _, _)
\* lines 70-83: one row per symbol, from symbol k on
Rows_SP(tk, tickers, day, k) ==
    IF k > Len(tickers) THEN <<>>
    ELSE LET sym    == tickers[k]
             open_p == day[sym].Open
             last_p == day[sym].Close
             pct    == PercentReturn(open_p, last_p)
             group  == IF sym = tk THEN "Target"
                       ELSE IF sym \in Range(Tail(tickers)) THEN "Same Sector"
                       ELSE "ERROR!!!"
         IN  <<[Group |-> group, Ticker |-> sym, Open |-> open_p, Last |-> last_p,
                pct |-> pct, cell |-> FormatPct(pct, 3)]>>
             \o Rows_SP(tk, tickers, day, k + 1)

RECURSIVE SelectPct(_, _)
\* the "1D % Change" column of the rows of group g
SelectPct(r, g) ==
    IF r = <<>> THEN <<>>
    ELSE (IF Head(r).Group = g THEN <<Head(r).pct>> ELSE <<>>) \o SelectPct(Tail(r), g)

\* BackEnd_02_Sector_Performance.sector_1d_comparison(tk), given Yahoo's
\* answers: the locals it ends with and what it hands its caller
Sector1dComparison_SP(tk, resp, day) ==
    LET g == GetSector_SP(resp)
        same_sector == Companies_in_Same_Sector_for_comparison(tk, g.value)
        fail(sec, exc) == [sector |-> sec, peers |-> <<>>, cmp |-> NoCmp,
                           result |-> Raised("sector_1d_comparison", exc)]
    IN  IF g.raised THEN fail(None, "Exception")
        ELSE IF same_sector.type = "str" THEN fail(g.value, "TypeError")
        ELSE LET tickers == <<tk>> \o same_sector.value
             IN  IF \E k \in DOMAIN tickers : ~day[tickers[k]].ok
                 THEN [fail(g.value, "IndexError") EXCEPT !.peers = same_sector.value]
                 ELSE LET r          == Rows_SP(tk, tickers, day, 1)
                          target_pct == SelectPct(r, "Target")[1]
                          comparison == SelectPct(r, "Same Sector")
                          q75        == Quantile(comparison, 3)
                          q25        == Quantile(comparison, 1)
                          c          == Classify_SP(target_pct, q25, q75)
                      IN  [sector |-> g.value, peers |-> same_sector.value,
                           cmp |-> [tgt_pct |-> target_pct, q25 |-> q25, q75 |-> q75,
                                    empty |-> FALSE],
                           result |-> Returned("sector_1d_comparison",
                                               [df |-> SortRows(r), status |-> c.status,
                                                signal |-> c.signal])]

\* sector_1d_comparison(t) in the deployed backend
CompareSP(t) ==
    /\ pc = "idle" /\ calls < MaxCalls
    /\ module = "Sector_Performance"
    /\ calls' = calls + 1
    /\ metaLog' = [metaLog EXCEPT ![t] = @ + 1]
    /\ \E resp \in MetaResponses, day \in IntradayDays :
         LET o == Sector1dComparison_SP(t, resp, day)
         IN  /\ ticker' = t
             /\ sector' = o.sector
             /\ peers' = o.peers
             /\ cmp' = o.cmp
             /\ result' = o.result
             /\ resolverLog' = IF GetSector_SP(resp).raised
                               THEN Unresolved(resolverLog, t, ProviderDid(resp))
                               ELSE Resolved(resolverLog, t, GetSector_SP(resp).value,
                                             ProviderDid(resp))
    /\ UNCHANGED <<module, macro_data_sign, keyCache, now, downloadLog, page, pc, i, rows, peer_pct, cacheVars, av, priceLog>>

\* durable_goods_analysis and INDPRO_analysis: the same cascade on the
\* month-over-month and year-over-year percent changes
durable_goods_analysis(MoM_pct, YoY_pct) ==
    IF MoM_pct > 3 THEN (IF YoY_pct > 0 THEN 5 ELSE 3)
    ELSE IF MoM_pct > 0 THEN (IF YoY_pct > 0 THEN 1 ELSE 0)
    ELSE IF MoM_pct < 0 THEN (IF YoY_pct > 0 THEN -1 ELSE -3)
    ELSE -5

INDPRO_analysis(MoM_pct, YoY_pct) ==
    IF MoM_pct > 3 THEN (IF YoY_pct > 0 THEN 5 ELSE 3)
    ELSE IF MoM_pct > 0 THEN (IF YoY_pct > 0 THEN 1 ELSE 0)
    ELSE IF MoM_pct < 0 THEN (IF YoY_pct > 0 THEN -1 ELSE -3)
    ELSE -5

\* the indicator changes the Census and FRED series may show, in percent
MoMChanges == {-1, 0, 2, 4}
YoYChanges == {-1, 1}

\* macro_data_analysis: the market-expectation text for a combined signal
\* (NoSignal stands for None)
NoSignal == 0 - 1000

SignalOutput(signal) ==
    IF signal \in {10, 8} THEN "Very Good"
    ELSE IF signal \in {6, 5, 4} THEN "Good"
    ELSE IF signal \in {3, 2, 1, 0, -1, -2, -3} THEN "Give It Some Time"
    ELSE IF signal \in {-4, -5, -6} THEN "Bad"
    ELSE IF signal \in {-8, -10} THEN "Very Bad"
    ELSE "Something Went WRONG!!!"

\* values in the tuple macro_data_analysis returns (line 342)
MacroReturnArity == 4

\* macro_data_analysis from the value g its get_sector call gave, the
\* module-level macro_data_sign before the call and the indicator changes:
\* what it hands back, and macro_data_sign afterwards
MacroOutcome(g, sign0, dm, dy, im, iy) ==
    IF g.raised
    THEN [result |-> Raised("macro_data_analysis", "Exception"), sign |-> sign0]
    ELSE IF g.value = "Industrials"
    THEN LET sign == sign0 + durable_goods_analysis(dm, dy) + INDPRO_analysis(im, iy)
         IN  [result |-> Returned("macro_data_analysis",
                                  [sector |-> g.value, signal |-> sign,
                                   Durable_Goods_signal |-> durable_goods_analysis(dm, dy),
                                   INDPRO_signal |-> INDPRO_analysis(im, iy),
                                   signal_output |-> SignalOutput(sign)]),
              sign |-> sign]
    ELSE [result |-> IF g.value \in CanonicalSectors
                     THEN Returned("macro_data_analysis",
                                   [sector |-> g.value, signal |-> NoSignal,
                                    signal_output |-> SignalOutput(NoSignal)])
                     ELSE Raised("macro_data_analysis", "UnboundLocalError"),
          sign |-> sign0]

\* every outcome of macro_data_analysis over the indicator changes
MacroOutcomes(g, sign0) ==
    { MacroOutcome(g, sign0, dm, dy, im, iy) :
        dm \in MoMChanges, dy \in YoYChanges, im \in MoMChanges, iy \in YoYChanges }

\* the resolver's log after a get_sector call of the deployed backend
Logged_SP(log, t, resp) ==
    IF GetSector_SP(resp).raised
    THEN Unresolved(log, t, ProviderDid(resp))
    ELSE Resolved(log, t, GetSector_SP(resp).value, ProviderDid(resp))

\* macro_data_analysis(t) in the deployed backend: get_sector again, then the
\* sector's branch
MacroDataAnalysis(t) ==
    /\ pc = "idle" /\ calls < MaxCalls
    /\ module = "Sector_Performance"
    /\ calls' = calls + 1
    /\ metaLog' = [metaLog EXCEPT ![t] = @ + 1]
    /\ \E resp \in MetaResponses, dm \in MoMChanges, dy \in YoYChanges,
          im \in MoMChanges, iy \in YoYChanges :
         LET m == MacroOutcome(GetSector_SP(resp), macro_data_sign, dm, dy, im, iy)
         IN  /\ result' = m.result
             /\ macro_data_sign' = m.sign
             /\ resolverLog' = Logged_SP(resolverLog, t, resp)
    /\ UNCHANGED <<module, keyCache, now, downloadLog, page, pc, localVars, cacheVars, av, priceLog>>

\* FrontEnd line 17: .upper().strip() of the text typed into the sidebar
TickerInput(text) == IF text = " " THEN "" ELSE Upper(text)

\* what is typed into the sidebar
SidebarInputs == {" ", "ge"}

\* names show_part_iii unpacks the tuple into (line 55)
UnpackArity == 5

\* BackEnd_01_Earnings and BackEnd_04_Playbook: the calls of show_part_i and
\* show_part_iv return, or raise
PartOutcomes == {"returns", "raises"}

NoPage == [warning |-> FALSE, headers |-> <<>>, done |-> <<>>, error |-> None,
           raised_by |-> None]

\* the except branch of the run handler: st.error after the sections so far
Failed(headers, done, exc, by) ==
    [warning |-> FALSE, headers |-> headers, done |-> done, error |-> exc, raised_by |-> by]

\* lines 75-88: the page after "Run Analysis" with a non-empty ticker, from
\* what the backend calls of the four sections do; `reached` is the last
\* section entered
RunPage(p1, o, m, p4) ==
    IF p1 = "raises"
    THEN [page |-> Failed(<<"I">>, <<>>, "Exception", "BackEnd_01_Earnings"), reached |-> 1]
    ELSE IF o.result.kind = "raised"
    THEN [page |-> Failed(<<"I", "II">>, <<"I">>, o.result.exc, "sector_1d_comparison"),
          reached |-> 2]
    ELSE IF m.result.kind = "raised"
    THEN [page |-> Failed(<<"I", "II", "III">>, <<"I", "II">>, m.result.exc,
                          "macro_data_analysis"),
          reached |-> 3]
    ELSE IF MacroReturnArity # UnpackArity
    THEN [page |-> Failed(<<"I", "II", "III">>, <<"I", "II">>, "ValueError", None),
          reached |-> 3]
    ELSE IF p4 = "raises"
    THEN [page |-> Failed(<<"I", "II", "III", "IV">>, <<"I", "II", "III">>, "Exception",
                          "BackEnd_04_Playbook"),
          reached |-> 4]
    ELSE [page |-> [NoPage EXCEPT !.headers = <<"I", "II", "III", "IV">>,
                                  !.done = <<"I", "II", "III", "IV">>],
          reached |-> 4]

\* what a run with ticker tk leaves behind: the page, and the state the
\* backend calls it made have written
RunEffect(tk, p1, resp2, o, resp3, m, p4) ==
    LET r == RunPage(p1, o, m, p4)
        log2 == Logged_SP(resolverLog, tk, resp2)
    IN  /\ page' = r.page
        /\ IF r.reached >= 2
           THEN /\ ticker' = tk /\ sector' = o.sector /\ peers' = o.peers /\ cmp' = o.cmp
           ELSE UNCHANGED <<ticker, sector, peers, cmp>>
        /\ result' = IF r.reached >= 3 THEN m.result
                     ELSE IF r.reached = 2 THEN o.result
                     ELSE Raised("show_part_i", "Exception")
        /\ metaLog' = [metaLog EXCEPT ![tk] = @ + (IF r.reached >= 3 THEN 2
                                                    ELSE IF r.reached = 2 THEN 1 ELSE 0)]
        /\ resolverLog' = IF r.reached >= 3 THEN Logged_SP(log2, tk, resp3)
                          ELSE IF r.reached = 2 THEN log2
                          ELSE resolverLog
        /\ macro_data_sign' = IF r.reached >= 3 THEN m.sign ELSE macro_data_sign

\* FrontEnd: "Run Analysis" is pressed with `text` in the sidebar
RunAnalysis(text) ==
    LET tk == TickerInput(text)
    IN  /\ pc = "idle" /\ calls < MaxCalls
        /\ module = "Sector_Performance"
        /\ calls' = calls + 1
        /\ IF tk = ""
           THEN /\ page' = [NoPage EXCEPT !.warning = TRUE]
                /\ UNCHANGED <<ticker, sector, peers, cmp, result, metaLog, resolverLog,
                               macro_data_sign>>
           ELSE \E p1 \in PartOutcomes, resp2 \in MetaResponses, day \in IntradayDays :
                  LET o == Sector1dComparison_SP(tk, resp2, day)
                      unreached == MacroOutcome(GetSector_SP(resp2), macro_data_sign, 0, 0, 0, 0)
                  IN  IF p1 = "raises" \/ o.result.kind = "raised"
                      THEN RunEffect(tk, p1, resp2, o, resp2, unreached, p1)
                      ELSE \E resp3 \in MetaResponses, p4 \in PartOutcomes :
                             \E m \in MacroOutcomes(GetSector_SP(resp3), macro_data_sign) :
                                RunEffect(tk, p1, resp2, o, resp3, m, p4)
        /\ UNCHANGED <<module, keyCache, now, downloadLog, pc, i, rows, peer_pct, cacheVars,
                       av, priceLog>>

-----------------------------------------------------------------------------
(* BackEnd_02_try2 *)

Symbols_try2 == {"GE", "HON", "UPS", "UNP", "CAT", "XYZ"}

\* what yf.download may give: an exception, or the closes' pct_change (in
\* ticks) of the symbols it has data for
Downloads_try2 ==
    { [raises |-> TRUE,  have |-> {}, pct |-> [sym \in Symbols_try2 |-> 0]],
      [raises |-> FALSE, have |-> {}, pct |-> [sym \in Symbols_try2 |-> 0]],
      [raises |-> FALSE, have |-> Symbols_try2 \ {"XYZ"},
       pct |-> [sym \in Symbols_try2 |-> 1604]],
      [raises |-> FALSE, have |-> Symbols_try2, pct |-> [sym \in Symbols_try2 |-> 1604]],
      [raises |-> FALSE, have |-> Symbols_try2,
       pct |-> [sym \in Symbols_try2 |->
                  CASE sym = "GE" -> 3200 [] sym = "XYZ" -> 0 - 3200
                    [] sym = "HON" -> 1604 [] OTHER -> 800]] }

\* dict.get(sector, []) on the five-entry lists
LeadersOrEmpty_try2(sector_) ==
    IF sector_ \in DOMAIN SECTOR_LEADERS_try2 THEN SECTOR_LEADERS_try2[sector_] ELSE <<>>

\* lines 92-96: the symbols joined into the download string
SymbolsOf_try2(tk, prs) == IF tk \notin Range(prs) THEN <<tk>> \o prs ELSE prs

RECURSIVE Series_try2(_, _)
\* _get_daily_returns: (returns * 100).round(2), one entry per symbol held
Series_try2(symbols, dl) ==
    IF symbols = <<>> THEN <<>>
    ELSE (IF Head(symbols) \in dl.have
          THEN <<[Symbol |-> Head(symbols), value |-> Round2(dl.pct[Head(symbols)])]>>
          ELSE <<>>) \o Series_try2(Tail(symbols), dl)

RECURSIVE InsertDesc(_, _)
InsertDesc(x, s) ==
    IF s = <<>> THEN <<x>>
    ELSE IF x.value > Head(s).value THEN <<x>> \o s
         ELSE <<Head(s)>> \o InsertDesc(x, Tail(s))

RECURSIVE SortValuesDesc(_)
\* pct_series.sort_values(ascending=False)
SortValuesDesc(r) ==
    IF r = <<>> THEN <<>>
    ELSE InsertDesc(r[Len(r)], SortValuesDesc(SubSeq(r, 1, Len(r) - 1)))

RECURSIVE Values(_)
Values(r) == IF r = <<>> THEN <<>> ELSE <<Head(r).value>> \o Values(Tail(r))

RECURSIVE Drop(_, _)
\* pct_series.drop(ticker)
Drop(r, tk) ==
    IF r = <<>> THEN <<>>
    ELSE (IF Head(r).Symbol = tk THEN <<>> ELSE <<Head(r)>>) \o Drop(Tail(r), tk)

\* mutant: a return equal to the peer mean counts as outperforming
MutScore_try2_tie(tk, pct_series) ==
    IF pct_series = <<>> \/ \A k \in DOMAIN pct_series : pct_series[k].Symbol # tk
    THEN [cmp |-> NoCmp, result |-> Raised("sector_1d_comparison", "ValueError")]
    ELSE LET tgt_ret == (CHOOSE k \in Range(pct_series) : k.Symbol = tk).value
             others  == Values(Drop(pct_series, tk))
             above   == IF Len(pct_series) > 1
                        THEN tgt_ret * Len(others) >= Sum(others)
                        ELSE tgt_ret >= tgt_ret
             status  == IF above THEN "Outperform" ELSE "Underperform"
             signal  == IF status = "Outperform" THEN 1 ELSE -1
         IN  [cmp |-> [tgt_pct |-> tgt_ret, q25 |-> Sum(others), q75 |-> Len(others),
                       empty |-> Len(pct_series) <= 1],
              result |-> Returned("sector_1d_comparison",
                                  [df |-> SortValuesDesc(pct_series), status |-> status,
                                   signal |-> signal])]

\* lines 101-124 of BackEnd_02_try2, from the return series
Score_try2(tk, pct_series) ==
    IF pct_series = <<>> \/ \A k \in DOMAIN pct_series : pct_series[k].Symbol # tk
    THEN [cmp |-> NoCmp, result |-> Raised("sector_1d_comparison", "ValueError")]
    ELSE LET tgt_ret == (CHOOSE k \in Range(pct_series) : k.Symbol = tk).value
             others  == Values(Drop(pct_series, tk))
             \* tgt_ret > peer_mean, with peer_mean = sum / n or tgt_ret itself
             above   == IF Len(pct_series) > 1
                        THEN tgt_ret * Len(others) > Sum(others)
                        ELSE tgt_ret > tgt_ret
             status  == IF above THEN "Outperform" ELSE "Underperform"
             signal  == IF status = "Outperform" THEN 1 ELSE -1
         IN  [cmp |-> [tgt_pct |-> tgt_ret, q25 |-> Sum(others), q75 |-> Len(others),
                       empty |-> Len(pct_series) <= 1],
              result |-> Returned("sector_1d_comparison",
                                  [df |-> SortValuesDesc(pct_series), status |-> status,
                                   signal |-> signal])]

\* _CACHE_EXPIRY_MIN
CacheExpiryMin == 5

\* minutes the clock is seen to advance between two calls
ClockSteps == {1, CacheExpiryMin}

\* lines 51-53: strftime("%Y%m%d%H") of the clock, then the minute bucket
TsKey(minutes) ==
    [hour |-> minutes \div 60,
     minute_bucket |-> ((minutes % 60) \div CacheExpiryMin) * CacheExpiryMin]

\* _get_prices_cache_key(symbols) under its lru_cache: the cache afterwards
GetPricesCacheKey(kc, symbols, minutes) ==
    IF Cached(kc, symbols) THEN kc
    ELSE Store(kc, symbols, [symbols |-> symbols, ts_key |-> TsKey(minutes)])

\* yf.download answered for `symbols` at the time `minutes`
Downloaded(log, symbols, minutes) ==
    [n    |-> (symbols :> (IF symbols \in DOMAIN log.n THEN log.n[symbols] + 1 ELSE 1)) @@ log.n,
     at   |-> (symbols :> TsKey(minutes)) @@ log.at,
     last |-> log.last]

\* _get_daily_returns(symbols) returned a series at the time `minutes`
Served(log, symbols, minutes) ==
    [log EXCEPT !.last = [symbols |-> symbols, served |-> TsKey(minutes),
                          fetched |-> log.at[symbols]]]

\* time passes between two calls
Tick ==
  \E d \in ClockSteps :
    /\ module = "try2" /\ pc = "idle"
    /\ now + d <= MaxMinutes
    /\ now' = now + d
    /\ UNCHANGED <<module, macro_data_sign, keyCache, downloadLog, page, pc, localVars,
                   cacheVars, av, metaLog, resolverLog, priceLog, result, calls>>

\* BackEnd_02_try2.sector_1d_comparison(t)
CompareTry2(t) ==
    LET tk == Upper(t)
    IN  /\ pc = "idle" /\ calls < MaxCalls
        /\ module = "try2"
        /\ calls' = calls + 1
        /\ ticker' = tk
        /\ \E resp \in IF Cached(sectorCache, tk) THEN {MetaResponses} ELSE MetaResponses :
             LET value == IF Cached(sectorCache, tk) THEN sectorCache[tk]
                          ELSE FetchSector_try2(resp).value
             IN  /\ sectorCache' = Store(sectorCache, tk, value)
                 /\ metaLog' = IF Cached(sectorCache, tk) THEN metaLog
                               ELSE [metaLog EXCEPT ![tk] = @ + 1]
                 /\ resolverLog' = Resolved(resolverLog, tk, value,
                                             IF Cached(sectorCache, tk) THEN "hit"
                                             ELSE ProviderDid(resp))
                 /\ sector' = OrUnknown(value)
        /\ peers' = LeadersOrEmpty_try2(sector')
        /\ LET symbols == SymbolsOf_try2(tk, peers')
           IN  \E dl \in IF Cached(returnsCache, symbols) THEN {Downloads_try2}
                         ELSE Downloads_try2 :
                 IF Cached(returnsCache, symbols)
                 THEN /\ UNCHANGED <<returnsCache, keyCache>>
                      /\ downloadLog' = Served(downloadLog, symbols, now)
                      /\ cmp' = Score_try2(tk, returnsCache[symbols]).cmp
                      /\ result' = Score_try2(tk, returnsCache[symbols]).result
                 ELSE IF dl.raises
                 THEN /\ UNCHANGED <<returnsCache, downloadLog>>
                      /\ keyCache' = GetPricesCacheKey(keyCache, symbols, now)
                      /\ cmp' = NoCmp
                      /\ result' = Raised("sector_1d_comparison", "DownloadError")
                 ELSE /\ returnsCache' = Store(returnsCache, symbols, Series_try2(symbols, dl))
                      /\ keyCache' = GetPricesCacheKey(keyCache, symbols, now)
                      /\ downloadLog' = Served(Downloaded(downloadLog, symbols, now), symbols, now)
                      /\ cmp' = Score_try2(tk, Series_try2(symbols, dl)).cmp
                      /\ result' = Score_try2(tk, Series_try2(symbols, dl)).result
        /\ UNCHANGED <<module, macro_data_sign, now, page, pc, i, rows, peer_pct, avCache,
                       closesCache, av, priceLog>>

\* BackEnd_02_try2.get_sector(t) called on its own
GetSectorTry2(t) ==
    LET tk == Upper(t)
    IN  /\ pc = "idle" /\ calls < MaxCalls
        /\ module = "try2"
        /\ calls' = calls + 1
        /\ \E resp \in IF Cached(sectorCache, tk) THEN {MetaResponses} ELSE MetaResponses :
             LET value == IF Cached(sectorCache, tk) THEN sectorCache[tk]
                          ELSE FetchSector_try2(resp).value
             IN  /\ sectorCache' = Store(sectorCache, tk, value)
                 /\ metaLog' = IF Cached(sectorCache, tk) THEN metaLog
                               ELSE [metaLog EXCEPT ![tk] = @ + 1]
                 /\ resolverLog' = Resolved(resolverLog, tk, value,
                                             IF Cached(sectorCache, tk) THEN "hit"
                                             ELSE ProviderDid(resp))
                 /\ result' = Returned("get_sector", value)
        /\ UNCHANGED <<module, macro_data_sign, keyCache, now, downloadLog, page, pc, localVars, avCache, closesCache,
                       returnsCache, av, priceLog>>

Next ==
    \/ \E t \in TargetInputs : CompareSectorCached(t)
    \/ \E t \in TargetInputs : CompareDeploy(t)
    \/ \E t \in TargetInputs : CompareTry(t)
    \/ AvThrottled
    \/ AvFailed
    \/ AvReturned
    \/ \E t \in ResolverInputs : GetSectorDeploy(t)
    \/ \E t \in {"GE", "XYZ"} : CompareSP(t)
    \/ \E t \in {"GE", "XYZ"} : MacroDataAnalysis(t)
    \/ \E text \in SidebarInputs : RunAnalysis(text)
    \/ \E t \in TargetInputs : CompareTry2(t)
    \/ \E t \in ResolverInputs : GetSectorTry2(t)
    \/ Tick

Spec == Init /\ [][Next]_vars

-----------------------------------------------------------------------------
(* The comparator on its own: every return against every pair of bounds *)

\* returns and bounds range over -ReturnSpan .. ReturnSpan hundredths
ReturnSpan == 4

Returns == { 16 * k : k \in (0 - ReturnSpan) .. ReturnSpan }

InitClassify ==
    /\ module \in {"for_deploy", "Sector_Performance"}
    /\ pc = "classify"
    /\ ticker = None
    /\ sector = None
    /\ peers = <<>>
    /\ cmp \in { [tgt_pct |-> r, q25 |-> a, q75 |-> b, empty |-> FALSE] :
                   r \in Returns, a \in Returns, b \in Returns }
    /\ cmp.q25 <= cmp.q75
    /\ InitProcess

ClassifyDeploy ==
    /\ pc = "classify" /\ module = "for_deploy"
    /\ pc' = "classified"
    /\ result' = Returned("classify", Classify_deploy(cmp.tgt_pct, cmp.q25, cmp.q75))
    /\ UNCHANGED <<module, macro_data_sign, keyCache, now, downloadLog, page, localVars, cacheVars, av, logVars, calls>>

ClassifySP ==
    /\ pc = "classify" /\ module = "Sector_Performance"
    /\ pc' = "classified"
    /\ result' = Returned("classify", Classify_SP(cmp.tgt_pct, cmp.q25, cmp.q75))
    /\ UNCHANGED <<module, macro_data_sign, keyCache, now, downloadLog, page, localVars, cacheVars, av, logVars, calls>>

NextClassify == ClassifyDeploy \/ ClassifySP

SpecClassify == InitClassify /\ [][NextClassify]_vars

-----------------------------------------------------------------------------
(* The peer selector on its own: every ticker against every sector *)

AllTickers ==
    UNION { Range(SECTOR_LEADERS[s_]) : s_ \in DOMAIN SECTOR_LEADERS } \cup {"XYZ", "ge"}

InitPeers ==
    /\ module \in {"for_deploy", "Sector_Performance"}
    /\ pc = "select"
    /\ ticker \in AllTickers
    /\ sector \in CanonicalSectors
    /\ peers = <<>>
    /\ cmp = NoCmp
    /\ InitProcess

\* lines 83-86 of BackEnd_02_for_deploy
SelectPeersDeploy ==
    /\ pc = "select" /\ module = "for_deploy"
    /\ pc' = "selected"
    /\ ticker' = Upper(ticker)
    /\ peers' = Peers_deploy(Upper(ticker), sector)
    /\ UNCHANGED <<module, macro_data_sign, keyCache, now, downloadLog, page, sector, i, rows, peer_pct, cmp, result,
                   cacheVars, av, logVars, calls>>

\* line 55 of BackEnd_02_Sector_Performance
SelectPeersSP ==
    /\ pc = "select" /\ module = "Sector_Performance"
    /\ pc' = "selected"
    /\ peers' = Companies_in_Same_Sector_for_comparison(ticker, sector).value
    /\ UNCHANGED <<module, macro_data_sign, keyCache, now, downloadLog, page, ticker, sector, i, rows, peer_pct, cmp, result,
                   cacheVars, av, logVars, calls>>

NextPeers == SelectPeersDeploy \/ SelectPeersSP

SpecPeers == InitPeers /\ [][NextPeers]_vars

-----------------------------------------------------------------------------
(* The bounds on their own: every list of peer returns *)

\* peers per comparison, and whole percents a return may be
MaxPeers == 4
MaxReturn == 4

PeerReturns == { Scale * k : k \in 1 .. MaxReturn }
TargetReturns == { Scale, (5 * Scale) \div 2, 4 * Scale }

PeerLists == UNION { [1 .. n -> PeerReturns] : n \in 1 .. MaxPeers }

InitBounds ==
    /\ module \in {"for_deploy", "Sector_Performance"}
    /\ pc = "bounds"
    /\ ticker = None
    /\ sector = None
    /\ peers = <<>>
    /\ cmp \in { [NoCmp EXCEPT !.tgt_pct = r] : r \in TargetReturns }
    /\ InitProcess
    /\ i = 0 /\ rows = <<>>

\* lines 104-124 of BackEnd_02_for_deploy on the peer returns ps
BoundsDeploy ==
  \E ps \in PeerLists :
    /\ pc = "bounds" /\ module = "for_deploy"
    /\ pc' = "bounded"
    /\ peer_pct' = ps
    /\ LET b == Bounds_deploy(cmp.tgt_pct, ps)
       IN  /\ cmp' = [tgt_pct |-> cmp.tgt_pct, q25 |-> b.q25, q75 |-> b.q75, empty |-> FALSE]
           /\ result' = Returned("classify", Classify_deploy(cmp.tgt_pct, b.q25, b.q75))
    /\ UNCHANGED <<module, macro_data_sign, keyCache, now, downloadLog, page, ticker, sector, peers,
                   i, rows, cacheVars, av, metaLog, resolverLog, priceLog, calls>>

\* lines 93-116 of BackEnd_02_Sector_Performance on the peer returns ps
BoundsSP ==
  \E ps \in PeerLists :
    /\ pc = "bounds" /\ module = "Sector_Performance"
    /\ pc' = "bounded"
    /\ peer_pct' = ps
    /\ LET q75 == Quantile(ps, 3)
           q25 == Quantile(ps, 1)
       IN  /\ cmp' = [tgt_pct |-> cmp.tgt_pct, q25 |-> q25, q75 |-> q75, empty |-> FALSE]
           /\ result' = Returned("classify", Classify_SP(cmp.tgt_pct, q25, q75))
    /\ UNCHANGED <<module, macro_data_sign, keyCache, now, downloadLog, page, ticker, sector, peers,
                   i, rows, cacheVars, av, metaLog, resolverLog, priceLog, calls>>

NextBounds == BoundsDeploy \/ BoundsSP

SpecBounds == InitBounds /\ [][NextBounds]_vars

-----------------------------------------------------------------------------
(* Claims *)

\* sector_1d_comparison has handed its caller a result
CompareResult == result.kind = "returned" /\ result.fn = "sector_1d_comparison"

\* C1: for every target return and bounds q25 <= q75 the classification is
\* total and exclusive: r >= q75 gives (Leading, +3), otherwise r <= q25 gives
\* (Underperforming, -3), otherwise (In-Line, 0); the signal is in {-3, 0, 3}.
C1_ClassificationTotal ==
    pc = "classified" =>
        LET r == cmp.tgt_pct
            v == result.value
        IN  /\ cmp.q25 <= cmp.q75
            /\ r >= cmp.q75 => v = [status |-> "Leading", signal |-> 3]
            /\ r < cmp.q75 /\ r <= cmp.q25 => v = [status |-> "Underperforming", signal |-> -3]
            /\ r < cmp.q75 /\ r > cmp.q25 => v = [status |-> "In-Line", signal |-> 0]
            /\ v.signal \in {-3, 0, 3}

C1_Witness ==
    /\ pc = "classified" /\ module = "for_deploy"
    /\ cmp.tgt_pct = cmp.q75 /\ cmp.q25 = cmp.q75
    /\ result.value.status = "Leading"

\* C4: for every ticker T and sector S of SECTOR_LEADERS the peers never hold
\* T, hold no duplicates and are at most 4; with T among S's leaders they are
\* the leaders with T removed in order, otherwise a prefix of the leaders (3
\* entries in BackEnd_02_Sector_Performance, all 4 in BackEnd_02_for_deploy).
C4_PeerList ==
    pc = "selected" =>
        LET L == SECTOR_LEADERS[sector]
        IN  /\ ticker \notin Range(peers)
            /\ NoDuplicates(peers)
            /\ Len(peers) <= 4
            /\ ticker \in Range(L) =>
                 \E k \in DOMAIN L :
                    /\ L[k] = ticker
                    /\ peers = SubSeq(L, 1, k - 1) \o SubSeq(L, k + 1, Len(L))
            /\ ticker \notin Range(L) =>
                 peers = IF module = "Sector_Performance" THEN SubSeq(L, 1, 3) ELSE L

C4_Witness ==
    /\ pc = "selected" /\ module = "for_deploy"
    /\ ticker = "UPS" /\ sector = "Industrials"
    /\ peers = <<"GE", "HON", "CAT">>

\* C2: in BackEnd_02_for_deploy a target return equal to q75 is always
\* (Leading, +3), also when q75 = q25.
C2_BoundaryLeading ==
    module = "for_deploy" /\ CompareResult /\ cmp.tgt_pct = cmp.q75 =>
        result.value.status = "Leading" /\ result.value.signal = 3

C2_Witness ==
    /\ module = "for_deploy" /\ CompareResult
    /\ ~cmp.empty
    /\ cmp.tgt_pct = cmp.q75 /\ cmp.q25 = cmp.q75
    /\ result.value.status = "Leading"

\* C3 as claimed: with an empty peer set (for_deploy, try) the target's own
\* return is both bounds and the result is (In-Line, 0).
C3_EmptyPeersInLine ==
    module \in {"for_deploy", "try"} /\ CompareResult /\ cmp.empty =>
        /\ cmp.q25 = cmp.tgt_pct /\ cmp.q75 = cmp.tgt_pct
        /\ result.value.status = "In-Line" /\ result.value.signal = 0

\* C3 as amended: with an empty peer set the target's own return is both
\* bounds and the result is (Leading, +3) for every target return.
C3_EmptyPeersLeading ==
    module \in {"for_deploy", "try"} /\ CompareResult /\ cmp.empty =>
        /\ cmp.q25 = cmp.tgt_pct /\ cmp.q75 = cmp.tgt_pct
        /\ result.value.status = "Leading" /\ result.value.signal = 3

C3_Witness ==
    /\ module = "for_deploy" /\ CompareResult /\ cmp.empty
    /\ peers = <<>> /\ cmp.tgt_pct < 0
    /\ result.value.signal = 3

AllThrottle(got) == \A k \in DOMAIN got : got[k] = "throttle"

\* C5: k throttle notices and then a normal payload make _av_request issue
\* exactly k+1 requests with identical parameters, sleep exactly k times,
\* raise nothing and return the payload; while only throttle notices have
\* come the call is still retrying.
C5_ThrottleRetried ==
    module \in {"for_deploy", "try"} /\ av.state # "none" =>
        /\ \A k \in DOMAIN av.sent : av.sent[k] = SentParams(av.key)
        /\ AllThrottle(av.got) =>
             /\ av.state = "running" /\ pc = "av"
             /\ Len(av.sent) = Len(av.got) + 1
             /\ av.sleeps = Len(av.got)
        /\ ( /\ av.got # <<>>
             /\ av.got[Len(av.got)] = "normal"
             /\ AllThrottle(SubSeq(av.got, 1, Len(av.got) - 1)) ) =>
             /\ av.state = "returned"
             /\ Len(av.sent) = Len(av.got)
             /\ av.sleeps = Len(av.got) - 1
             /\ Cached(avCache, av.key)
             /\ ~IsThrottle(avCache[av.key])
             /\ ~(result.kind = "raised" /\ result.exc \in {"HTTPError"})

C5_Witness ==
    /\ module = "for_deploy"
    /\ av.state = "returned"
    /\ av.got = <<"throttle", "throttle", "normal">>
    /\ Len(av.sent) = 3 /\ av.sleeps = 2
    /\ CompareResult

\* C6: a hard-error payload makes _av_request raise at once, with no sleep and
\* no further request; that error, or a daily series with fewer than two
\* dates, for the target or a peer leaves sector_1d_comparison without result.
C6_HardErrorPropagates ==
    module \in {"for_deploy", "try"} =>
        /\ (av.got # <<>> /\ av.got[Len(av.got)] = "error") =>
             /\ av.state = "raised" /\ av.exc = "ValueError"
             /\ Len(av.sent) = Len(av.got)
             /\ av.sleeps = Len(av.got) - 1
             /\ pc = "idle" /\ result.kind = "raised"
        /\ ( /\ av.state = "returned" /\ av.caller = "closes"
             /\ Cached(avCache, av.key)
             /\ Cardinality(DOMAIN avCache[av.key].ts) < 2 ) =>
             pc = "idle" /\ result.kind = "raised"
        /\ CompareResult =>
             \A sym \in {ticker} \cup Range(peers) :
                /\ Cached(avCache, DailyKey(sym))
                /\ "Error Message" \notin avCache[DailyKey(sym)].keys
                /\ Cardinality(DOMAIN avCache[DailyKey(sym)].ts) >= 2

C6_Witness ==
    /\ module = "for_deploy"
    /\ av.got = <<"error">> /\ Len(av.sent) = 1 /\ av.sleeps = 0
    /\ ticker = "GE" /\ av.key.symbol = "HON"
    /\ result = Raised("sector_1d_comparison", "ValueError")

\* the resolver asked the metadata provider at most once per ticker, and its
\* latest return is the value it first returned for that ticker
ResolvedOnce ==
    /\ \A t \in TickerStrings : metaLog[t] <= 1
    /\ resolverLog.last.t # None =>
         /\ resolverLog.last.t \in DOMAIN resolverLog.first
         /\ resolverLog.last.value = resolverLog.first[resolverLog.last.t]

\* C7: in the cached resolvers (for_deploy, try2) the metadata provider is
\* called at most once per distinct ticker and every later call returns the
\* value of the first, a None from a failed first call included.
C7_ResolverCached == module \in {"for_deploy", "try2"} => ResolvedOnce

C7_Witness ==
    /\ module = "for_deploy" /\ calls >= 2
    /\ DOMAIN resolverLog.first = {"GE"}
    /\ resolverLog.first["GE"] = None
    /\ resolverLog.last = [t |-> "GE", value |-> None, how |-> "hit"]
    /\ metaLog["GE"] = 1

\* C8 as claimed: in the deployed path a second resolution of the same ticker
\* returns the identical sector without a second call to the provider.
C8_DeployedResolverIdempotent ==
    module = "Sector_Performance" =>
        /\ \A t \in TickerStrings : metaLog[t] <= 1
        /\ resolverLog.last.t \in DOMAIN resolverLog.first =>
             resolverLog.last.value = resolverLog.first[resolverLog.last.t]

\* C9: in for_deploy and try2 a provider failure (it raises, or its answer has
\* no sector field) is never raised: get_sector returns None and
\* sector_1d_comparison goes on with sector "Unknown" and no peers.
C9_ResolutionFailureAbsorbed ==
    module \in {"for_deploy", "try2"} =>
        /\ resolverLog.last.value # "raised"
        /\ result.fn = "get_sector" => result.kind = "returned"
        /\ ~(result.kind = "raised" /\ result.exc = "Exception")
        /\ resolverLog.last.how = "failed" =>
             /\ resolverLog.last.value = None
             /\ (pc = "av" \/ result.fn = "sector_1d_comparison") =>
                  /\ resolverLog.last.t = ticker
                  /\ sector = "Unknown"
                  /\ peers = <<>>

C9_Witness ==
    /\ module = "try2"
    /\ resolverLog.last.how = "failed"
    /\ CompareResult
    /\ sector = "Unknown" /\ peers = <<>>

\* C10 as claimed: the sector BackEnd_02_for_deploy.sector_1d_comparison works
\* with is one of the 11 canonical names or "Unknown".
C10_SectorCanonicalOrUnknown ==
    module = "for_deploy" /\ ticker # None =>
        sector \in CanonicalSectors \cup {"Unknown"}

\* C11: in BackEnd_02_for_deploy each symbol's daily series is fetched
\* successfully at most once per process; once it is held, no further request
\* is made for the symbol, the closes derived from it never change, and every
\* table row shows the closes held for its symbol.
C11_SeriesFetchedOnce ==
    [][ module = "for_deploy" =>
          /\ \A sym \in Symbols :
               /\ priceLog'[sym] <= 1
               /\ Cached(avCache, DailyKey(sym)) =>
                    /\ Cached(avCache', DailyKey(sym))
                    /\ avCache'[DailyKey(sym)] = avCache[DailyKey(sym)]
                    /\ priceLog'[sym] = priceLog[sym]
                    /\ av'.key = DailyKey(sym) => av' = av
               /\ Cached(closesCache, sym) =>
                    /\ Cached(closesCache', sym)
                    /\ closesCache'[sym] = closesCache[sym]
          /\ CompareResult' =>
               \A k \in DOMAIN result'.value.df :
                  LET row == result'.value.df[k]
                  IN  /\ Cached(closesCache', row.Ticker)
                      /\ row.prev_c = closesCache'[row.Ticker].prev_c
                      /\ row.last_c = closesCache'[row.Ticker].last_c ]_vars

\* a second comparison served entirely from the caches
C11_Witness ==
    /\ module = "for_deploy" /\ calls = 2
    /\ CompareResult /\ ticker = "GE" /\ peers # <<>>
    /\ resolverLog.last.how = "hit"
    /\ av = NoAv
    /\ \A sym \in {ticker} \cup Range(peers) : priceLog[sym] = 1

\* C12 as claimed: in BackEnd_02_try2 a return series is served only within
\* the 5-minute UTC bucket in which it was downloaded; a call made after the
\* bucket has changed downloads again.
C12_SeriesExpiresWithBucket ==
    module = "try2" /\ downloadLog.last.symbols # None =>
        downloadLog.last.fetched = downloadLog.last.served

\* C13 as claimed: in the table returned by sector_1d_comparison (for_deploy,
\* Sector_Performance) the rows are ordered by group and, within a group, in
\* non-increasing order of the numeric percent return.
C13_RowsNumericallyDescending ==
    module \in {"for_deploy", "Sector_Performance"} /\ CompareResult =>
        LET df == result.value.df
        IN  \A j \in DOMAIN df : \A k \in DOMAIN df :
               j < k =>
                 /\ GroupRank(df[j].Group) <= GroupRank(df[k].Group)
                 /\ df[j].Group = df[k].Group =>
                      ParsePct(df[j].cell) >= ParsePct(df[k].cell)

\* C14: in BackEnd_02_Sector_Performance a resolved sector that is no key of
\* SECTOR_LEADERS makes Companies_in_Same_Sector_for_comparison yield the
\* "SOMETHING WENT WRONG" sentinel, and sector_1d_comparison then raises: it
\* returns no result and classifies nothing.
C14_SentinelRaises ==
    module = "Sector_Performance" =>
        /\ \A t \in {"GE", "XYZ"} : \A s \in {None, "Unknown", "conglomerates"} :
              Companies_in_Same_Sector_for_comparison(t, s)
                 = [type |-> "str", value |-> "SOMETHING WENT WRONG"]
        /\ ( /\ result.fn = "sector_1d_comparison"
             /\ resolverLog.last.value # "raised"
             /\ resolverLog.last.value \notin DOMAIN SECTOR_LEADERS ) =>
               /\ result.kind = "raised"
               /\ result.exc = "TypeError"
               /\ cmp = NoCmp
               /\ peers = <<>>

C14_Witness ==
    /\ module = "Sector_Performance"
    /\ result.kind = "raised" /\ result.fn = "sector_1d_comparison"
    /\ result.exc = "TypeError"
    /\ ticker = "GE"
    /\ resolverLog.last = [t |-> "GE", value |-> None, how |-> "answered"]

\* the table's returns of the symbols other than tk, summed, and their number
OthersSum(df, tk) ==
    Sum([k \in DOMAIN df |-> IF df[k].Symbol = tk THEN 0 ELSE df[k].value])

OthersCount(df, tk) == Cardinality({ k \in DOMAIN df : df[k].Symbol # tk })

\* C15: BackEnd_02_try2.sector_1d_comparison returns (Outperform, +1) exactly
\* when the target's return is strictly greater than the mean of the other
\* downloaded symbols' returns, and (Underperform, -1) otherwise, equality
\* and the no-peer case included; the signal is always -1 or +1.
C15_TwoWayScore ==
    module = "try2" /\ CompareResult =>
        LET df  == result.value.df
            tgt == (CHOOSE r \in Range(df) : r.Symbol = ticker).value
            n   == OthersCount(df, ticker)
            above == n > 0 /\ tgt * n > OthersSum(df, ticker)
        IN  /\ \E r \in Range(df) : r.Symbol = ticker
            /\ result.value.signal \in {-1, 1}
            /\ above <=> (result.value.status = "Outperform" /\ result.value.signal = 1)
            /\ ~above <=> (result.value.status = "Underperform" /\ result.value.signal = -1)

\* the target's return equals the mean of four peers
C15_Witness ==
    /\ module = "try2" /\ CompareResult
    /\ OthersCount(result.value.df, ticker) = 4
    /\ (CHOOSE r \in Range(result.value.df) : r.Symbol = ticker).value * 4
         = OthersSum(result.value.df, ticker)
    /\ result.value.status = "Underperform"

\* four times the linearly interpolated value of the ascending list s at
\* position (num/4) * (Len(s) - 1)
Interpolated4(s, num) ==
    LET pos4 == num * (Len(s) - 1)
        lo   == pos4 \div 4
        rem  == pos4 % 4
        hi   == IF lo + 2 <= Len(s) THEN lo + 2 ELSE lo + 1
    IN  4 * s[lo + 1] + rem * (s[hi] - s[lo + 1])

\* s is the list p in ascending order
Ascending(s, p) ==
    /\ Len(s) = Len(p)
    /\ \A k \in 1 .. Len(s) - 1 : s[k] <= s[k + 1]
    /\ \A v \in Range(p) \cup Range(s) :
          Cardinality({ k \in DOMAIN s : s[k] = v }) = Cardinality({ k \in DOMAIN p : p[k] = v })

\* C16: for every non-empty list of peer returns the bounds are the linearly
\* interpolated quantiles of the sorted returns at 0.25*(n-1) and 0.75*(n-1),
\* and q25 <= q75; peers [1, 2, 3, 4] give q25 = 1.75 and q75 = 3.25, and the
\* targets 4, 1 and 2.5 give (Leading, +3), (Underperforming, -3), (In-Line, 0).
C16_InterpolatedQuartiles ==
    pc = "bounded" =>
        LET s == SortAsc(peer_pct)
            v == result.value
        IN  /\ Ascending(s, peer_pct)
            /\ 4 * cmp.q25 = Interpolated4(s, 1)
            /\ 4 * cmp.q75 = Interpolated4(s, 3)
            /\ cmp.q25 <= cmp.q75
            /\ peer_pct = <<Scale, 2 * Scale, 3 * Scale, 4 * Scale>> =>
                 /\ 4 * cmp.q25 = 7 * Scale
                 /\ 4 * cmp.q75 = 13 * Scale
                 /\ cmp.tgt_pct = 4 * Scale => v = [status |-> "Leading", signal |-> 3]
                 /\ cmp.tgt_pct = Scale => v = [status |-> "Underperforming", signal |-> -3]
                 /\ 2 * cmp.tgt_pct = 5 * Scale => v = [status |-> "In-Line", signal |-> 0]

C16_Witness ==
    /\ pc = "bounded" /\ module = "Sector_Performance"
    /\ peer_pct = <<Scale, 2 * Scale, 3 * Scale, 4 * Scale>>
    /\ 4 * cmp.q25 = 7 * Scale /\ 4 * cmp.q75 = 13 * Scale
    /\ 2 * cmp.tgt_pct = 5 * Scale
    /\ result.value.status = "In-Line"

\* the exact percent return of a table row, from its two closes
ExactPct(row) == PercentReturn(row.prev_c, row.last_c)

IsPeerRow(row) == row.Group = "Same Sector"

\* the three-tier classification of the target row's exact return against
\* the quartiles of the peer rows' exact returns
ExactStatus(df, tk) ==
    LET tgt == ExactPct(CHOOSE r \in Range(df) : r.Ticker = tk)
        sel == SelectSeq(df, IsPeerRow)
        ps  == [k \in DOMAIN sel |-> ExactPct(sel[k])]
        q75 == IF ps = <<>> THEN tgt ELSE Quantile(ps, 3)
        q25 == IF ps = <<>> THEN tgt ELSE Quantile(ps, 1)
    IN  IF tgt >= q75 THEN [status |-> "Leading", signal |-> 3]
        ELSE IF tgt <= q25 THEN [status |-> "Underperforming", signal |-> -3]
        ELSE [status |-> "In-Line", signal |-> 0]

\* C17 as claimed: in BackEnd_02_for_deploy the returned status and signal are
\* the classification of the target's exact return against the quartiles of
\* the peers' exact returns; the 2-decimal read-back never changes it.
C17_RoundingNeverChangesStatus ==
    module = "for_deploy" /\ CompareResult =>
        /\ result.value.status = ExactStatus(result.value.df, ticker).status
        /\ result.value.signal = ExactStatus(result.value.df, ticker).signal

\* C18 as claimed: for an Industrials ticker every macro_data_analysis call
\* returns as combined signal the sum of that call's Durable Goods and INDPRO
\* signals, and its market-expectation text is never "Something Went WRONG!!!".
C18_MacroSignalRepeatable ==
    ( /\ module = "Sector_Performance"
      /\ result.kind = "returned" /\ result.fn = "macro_data_analysis"
      /\ result.value.sector = "Industrials" ) =>
        /\ result.value.Durable_Goods_signal \in {-5, -3, -1, 0, 1, 3, 5}
        /\ result.value.INDPRO_signal \in {-5, -3, -1, 0, 1, 3, 5}
        /\ result.value.signal
             = result.value.Durable_Goods_signal + result.value.INDPRO_signal
        /\ result.value.signal_output
             = SignalOutput(result.value.Durable_Goods_signal + result.value.INDPRO_signal)
        /\ result.value.signal_output # "Something Went WRONG!!!"


\* C19: after "Run Analysis" with a non-empty ticker during which every backend
\* function returned normally, sections I, II, III and IV have been rendered in
\* that order and no error message is shown; an error message is shown only
\* when some backend function raised.
C19_RunRendersAllSections ==
    /\ (page.headers # <<>> /\ page.raised_by = None)
          => (page.done = <<"I", "II", "III", "IV">> /\ page.error = None)
    /\ (page.error # None) => (page.raised_by # None)


\* C20: a payload of the price service that holds "Error Message" makes
\* _av_request raise ValueError at once, with no sleep after it and no further
\* request, also when the payload holds "Note" or "Information" as well.
C20_ErrorMessageNeverRetried ==
    (module \in {"for_deploy", "try"} /\ av.hard) =>
        /\ av.state = "raised" /\ av.exc = "ValueError"
        /\ Len(av.sent) = Len(av.got)
        /\ av.sleeps = Len(av.got) - 1

====
